---- MODULE Spec2Model ----
(***************************************************************************)
(* Model of the resilient Google scraper (src/scrape_google.py): the       *)
(* session lifecycle (start / stop / _safe_quit), the run_once pipeline    *)
(* (probe, consent, search, extract, guaranteed stop) and the result       *)
(* extractor.                                                              *)
(***************************************************************************)
EXTENDS Integers, Sequences, FiniteSets, TLC

\* ------------------------------------------------------------------ bounds
\* cap on the number of browser sessions uc.Chrome() creates in one behaviour
MaxSessions == 3
\* number of entries of domain_candidates that are modelled
NumCandidates == 3
\* number of entries of search_input_selectors that are modelled
NumSelectors == 2
\* largest number of div.MjjYud blocks on a page
MaxBlocks == 3
\* largest max_results value drawn (the smallest is -1)
MaxResultsBound == 3

\* largest number of elements with a class inside one candidate block
MaxSnippetElems == 2
\* largest length of a preferred_lang value
MaxLocaleLen == 3
\* largest length of a query
MaxQueryLen == 2
\* number of entries of search_input_xpaths that are modelled
NumXPaths == 2
\* largest number of elements one lookup of the locator returns
MaxLocElems == 2
\* number of entries of cookie_selectors that are modelled
NumCookieSelectors == 2
\* largest number of elements one consent lookup returns
MaxCookieElems == 2
\* largest number of iframes on the page
MaxFrames == 3

\* the run() calls client.py makes on its proxy
NumRequests == 2
Requests == 1..NumRequests

\* ------------------------------------------------------------------ values
\* self.driver = None
NoDriver == 0
\* domain_used = None
NoDomain == 0
\* no pending exception, no outcome yet
None == "none"
\* last_exc = None
NoExc == [cand |-> 0, kind |-> "none"]
\* _try_open_domain_variations has not returned
NotReturned == [returned |-> FALSE, domain |-> NoDomain, error |-> NoExc]

VARIABLES
    debug,          \* self.debug
    driver,         \* self.driver: NoDriver or a session id
    quit_called,    \* self._quit_called
    created,        \* number of sessions uc.Chrome() has created so far
    torn,           \* torn[s]: how many times _safe_quit was applied to s
    stopOps,        \* driver operations performed by the most recent stop()
    stopRaised,     \* whether the most recent stop() raised
    lastCall,       \* scraper method invoked last
    stopStreak,     \* stop() calls made in a row up to now (counted up to 2)
    quitIn,         \* what the driver does during the teardown under study
    pc,             \* position inside run_once ("idle" outside of it)
    max_results,    \* run_once argument
    entryDriver,    \* self.driver when run_once was entered
    startFailed,    \* start() raised in this run
    stopsInRun,     \* stop() invocations of this run
    cand,           \* index of the loop in _try_open_domain_variations
    visited,        \* candidates the prober call navigated to, with outcome
    last_exc,       \* local last_exc of _try_open_domain_variations
    probeRet,       \* return value of _try_open_domain_variations
    domain_used,    \* local domain_used of run_once
    consent,        \* _accept_cookies_resilient was called in this run
    srch,           \* what search() did in this run
    extracted,      \* extract_results was entered in this run
    results,        \* list returned by extract_results
    err,            \* exception unwinding run_once
    outcome,        \* how the last run_once ended
    page,           \* parsed page handed to extract_results
    exDone,         \* extract_results returned
    sIn,            \* what the driver does during the search() under study
    cPc,            \* position inside _accept_cookies_resilient
    cSel,           \* index into cookie_selectors of the loop in progress
    cFrame,         \* index of the iframe being examined
    cFrames,        \* number of iframes find_elements returned
    cCtx,           \* browsing context of the driver: "top" or "frame"
    cClicked,       \* a click on a consent element has succeeded
    cRet,           \* return value of _accept_cookies_resilient
    rIn,            \* content of the candidate block under study
    rPc,            \* "idle", or how the loop body ended: "emitted" / "raised"
    rec,            \* the SearchResult the loop body appended
    preferred_lang, \* self.preferred_lang, a sequence of characters
    query,          \* the query, a sequence of characters
    probeUrl,       \* url the prober navigated to, None before
    directUrl,      \* url _direct_search navigated to, None before
    mPc,            \* position of main: "idle", "constructed", "returned",
                    \* or "escaped" when an exception left main
    stdout,         \* the JSON documents main printed
    lPc,            \* tier _locate_search_input is in: "idle", "css",
                    \* "xpath", "input", "textarea", "done"
    lIdx,           \* index of the descriptor looked up next in the tier
    lLog,           \* the lookups passed over so far, in order
    lHit,           \* the lookup that produced the returned element
    lRet,           \* what _locate_search_input returned
    sDriver,        \* self.driver of the server's GetResults object
    sCreated,       \* browsers the server process has started so far
    sAlive,         \* browsers of the server process that are running
    rpc,            \* position of each run request inside GetResults.run
    own,            \* the browser each run request started (0: none)
    drove,          \* the browsers each run request sent commands to
    quitBy          \* the browsers each run request called quit() on

scraperVars == <<debug, driver, quit_called>>
worldVars == <<created, torn>>
stopVars == <<stopOps, stopRaised>>
callVars == <<lastCall, stopStreak>>
probeVars == <<cand, visited, last_exc, probeRet, domain_used>>
runVars == <<max_results, entryDriver, startFailed, stopsInRun, consent, srch,
             extracted, results, err, outcome>>
\* the variables of the calls studied on their own
consentVars == <<cPc, cSel, cFrame, cFrames, cCtx, cClicked, cRet>>
recordVars == <<rIn, rPc, rec>>
urlVars == <<preferred_lang, query, probeUrl, directUrl>>
mainVars == <<mPc, stdout>>
locateVars == <<lPc, lIdx, lLog, lHit, lRet>>
serverVars == <<sDriver, sCreated, sAlive, rpc, own, drove, quitBy>>
unitVars == <<sIn, consentVars, recordVars, urlVars, mainVars, locateVars,
              serverVars>>
coreVars == <<scraperVars, worldVars, stopVars, callVars, pc, probeVars,
              runVars, page, exDone, quitIn>>
nonConsentVars == <<coreVars, sIn, recordVars, urlVars, mainVars, locateVars,
                    serverVars>>
scraperSide == <<coreVars, sIn, consentVars, recordVars, urlVars, mainVars,
                 locateVars>>
extractVars == <<page, exDone, quitIn, unitVars>>
vars == <<debug, driver, quit_called, created, torn, stopOps, stopRaised,
          lastCall, stopStreak, quitIn, pc, max_results, entryDriver,
          startFailed, stopsInRun, cand, visited, last_exc, probeRet,
          domain_used, consent, srch, extracted, results, err, outcome,
          page, exDone, sIn, cPc, cSel, cFrame, cFrames, cCtx, cClicked, cRet,
          rIn, rPc, rec, preferred_lang, query, probeUrl, directUrl,
          mPc, stdout, lPc, lIdx, lLog, lHit, lRet,
          sDriver, sCreated, sAlive, rpc, own, drove, quitBy>>

Sessions == 1..MaxSessions
Raises == {"ok", "raises"}

\* --------------------------------------------------------------- _safe_quit
\* state of driver.service / driver.service.process when stop() runs
ServiceStates == {"absent", "noproc", "proc", "error"}
QuitInputs == [closeR : Raises, quitR : Raises, svc : ServiceStates,
               killR : Raises]

\* A teardown whose quit shares the try block of close.
SafeQuit_sharedTry(d, closeR, quitR, svc, killR) ==
    IF d = NoDriver
    THEN [ops |-> <<>>, escaped |-> FALSE]
    ELSE [ops |-> <<[op |-> "close", raised |-> closeR = "raises"]>>
                  \o (IF closeR = "raises" THEN <<>>
                      ELSE <<[op |-> "quit", raised |-> quitR = "raises"]>>)
                  \o (IF svc = "proc"
                      THEN <<[op |-> "kill", raised |-> killR = "raises"]>>
                      ELSE <<>>),
          escaped |-> FALSE]

\* SafeChromeQuitMixin._safe_quit: the driver operations attempted, in order,
\* and whether an exception leaves the method.
SafeQuit(d, closeR, quitR, svc, killR) ==
    IF d = NoDriver
    THEN [ops |-> <<>>, escaped |-> FALSE]
    ELSE [ops |-> <<[op |-> "close", raised |-> closeR = "raises"],
                    [op |-> "quit", raised |-> quitR = "raises"]>>
                  \o (IF svc = "proc"
                      THEN <<[op |-> "kill", raised |-> killR = "raises"]>>
                      ELSE <<>>),
          escaped |-> FALSE]

\* --------------------------------------------------------------- start/stop
\* A stop without the already-stopped flag that keeps the handle.
StopCall_naive(closeR, quitR, svc, killR) ==
    LET q == SafeQuit(driver, closeR, quitR, svc, killR) IN
    /\ stopOps' = q.ops
    /\ stopRaised' = q.escaped
    /\ torn' = IF driver = NoDriver THEN torn
               ELSE [torn EXCEPT ![driver] = IF @ < 2 THEN @ + 1 ELSE 2]
    /\ UNCHANGED <<driver, quit_called>>

\* ResilientGoogleScraper.stop
StopCall(closeR, quitR, svc, killR) ==
    IF quit_called
       THEN /\ stopOps' = <<>>
            /\ stopRaised' = FALSE
            /\ UNCHANGED <<driver, quit_called, torn>>
       ELSE LET q == SafeQuit(driver, closeR, quitR, svc, killR) IN
            /\ quit_called' = TRUE
            /\ stopOps' = q.ops
            /\ stopRaised' = q.escaped
            /\ torn' = IF driver = NoDriver THEN torn
                       ELSE [torn EXCEPT ![driver] = IF @ < 2 THEN @ + 1 ELSE 2]
            /\ driver' = NoDriver

\* ResilientGoogleScraper.start: uc.Chrome() either creates a session, which
\* is assigned to self.driver, or raises and leaves self.driver as it was.
StartCall(ok) ==
    /\ ok => created < MaxSessions
    /\ IF ok
       THEN /\ created' = created + 1
            /\ driver' = created + 1
       ELSE UNCHANGED <<created, driver>>

Called(m) ==
    /\ lastCall' = m
    /\ stopStreak' = IF m # "stop" THEN 0
                     ELSE IF stopStreak < 2 THEN stopStreak + 1 ELSE 2

\* ------------------------------------------- _try_open_domain_variations
\* What the driver does on one candidate: driver.get, the WebDriverWait on
\* the combined selector, and find_elements for each selector of the re-poll.
RepollOutcomes == [1..NumSelectors -> {"empty", "found", "raises"}]
ProbeInputs == [get : Raises, wait : {"present", "timeout", "raises"},
                repoll : RepollOutcomes]

\* the re-poll loop over search_input_selectors: a raising lookup is passed
\* over, the first non-empty one ends the loop with success
RECURSIVE RepollFinds(_, _)
RepollFinds(rp, i) ==
    IF i > NumSelectors THEN FALSE
    ELSE IF rp[i] = "found" THEN TRUE
    ELSE RepollFinds(rp, i + 1)

\* body of the loop for one candidate: "present" and "repoll_found" return
\* the candidate, every other value is the exception caught by the outer except
ProbeOne(o) ==
    IF o.get = "raises" THEN "get_raises"
    ELSE IF o.wait = "present" THEN "present"
    ELSE IF o.wait = "raises" THEN "wait_raises"
    ELSE IF RepollFinds(o.repoll, 1) THEN "repoll_found"
    ELSE "timeout"

Detected(r) == r \in {"present", "repoll_found"}

\* -------------------------------------------------------------------- search
DirectOutcomes == {"present", "timeout", "get_raises", "wait_raises"}
SearchInputs ==
    [loc : {"none", "found"},            \* _locate_search_input
     tag : {"native", "other", "error"}, \* input_el.tag_name
     sendText : Raises,                  \* input_el.send_keys(query / ch)
     sendEnter : Raises,                 \* input_el.send_keys(Keys.ENTER)
     setJs : Raises,                     \* inside _set_value_js
     keyEvents : Raises,                 \* the keydown/keypress/keyup scripts
     wait : {"present", "timeout", "raises"},
     errWrite : Raises,                  \* search_interaction_error.txt
     d1 : DirectOutcomes,                \* first _direct_search of the call
     d2 : DirectOutcomes]                \* second _direct_search of the call

\* _direct_search raises when driver.get raises or when the wait raises
\* anything but TimeoutException; the debug artifacts are guarded
DirectRaises(d) == d \in {"get_raises", "wait_raises"}

\* _set_value_js returns False on any exception
SetValueJs(in) == in.setJs = "ok"

\* the outer `except Exception` handler of search, entered after `before`
\* direct searches were already started in the call
SearchHandler(in, dbg, committed, before) ==
    IF dbg /\ in.errWrite = "raises"
    THEN [ran |-> TRUE, located |-> TRUE, committed |-> committed,
          direct |-> before, raised |-> TRUE]
    ELSE LET d == IF before = <<>> THEN in.d1 ELSE in.d2 IN
         [ran |-> TRUE, located |-> TRUE, committed |-> committed,
          direct |-> Append(before, d), raised |-> DirectRaises(d)]

\* the results wait that ends the try block of search
SearchWait(in, dbg, committed) ==
    IF in.wait = "raises"
    THEN SearchHandler(in, dbg, committed, <<>>)
    ELSE [ran |-> TRUE, located |-> TRUE, committed |-> committed,
          direct |-> <<>>, raised |-> FALSE]

\* ResilientGoogleScraper.search: whether an input was located, whether a
\* commit keystroke was delivered, the _direct_search calls started (with
\* their outcome) and whether an exception leaves search
Search(in, dbg) ==
    IF in.loc = "none"
    THEN [ran |-> TRUE, located |-> FALSE, committed |-> FALSE,
          direct |-> <<in.d1>>, raised |-> DirectRaises(in.d1)]
    ELSE IF in.tag = "native"
    THEN IF in.sendText = "raises" \/ in.sendEnter = "raises"
         THEN SearchHandler(in, dbg, FALSE, <<>>)
         ELSE SearchWait(in, dbg, TRUE)
    ELSE IF SetValueJs(in)
    THEN IF in.keyEvents = "ok" THEN SearchWait(in, dbg, TRUE)
         ELSE SearchWait(in, dbg, in.sendEnter = "ok")
    ELSE IF in.sendText = "raises" \/ in.sendEnter = "raises"
    THEN IF DirectRaises(in.d1)
         THEN SearchHandler(in, dbg, FALSE, <<in.d1>>)
         ELSE [ran |-> TRUE, located |-> TRUE, committed |-> FALSE,
               direct |-> <<in.d1>>, raised |-> FALSE]
    ELSE SearchWait(in, dbg, TRUE)

NoSearch == [ran |-> FALSE, located |-> FALSE, committed |-> FALSE,
             direct |-> <<>>, raised |-> FALSE]

\* ------------------------------------------------------------ extract_results
\* A div.MjjYud block: whether it lies inside <div id="search">, whether
\* "div.yuRUbf a" matches in it and whether "h3" matches in it.
Blocks == [inSearch : BOOLEAN, link : BOOLEAN, h3 : BOOLEAN]

RECURSIVE SeqsUpTo(_, _)
SeqsUpTo(S, n) ==
    IF n = 0 THEN {<<>>}
    ELSE LET shorter == SeqsUpTo(S, n - 1) IN
         shorter \cup {Append(s, x) : s \in shorter, x \in S}

\* A page: whether <div id="search"> exists, and its div.MjjYud blocks in
\* document order (a block is inside the search div only if there is one).
Pages == {p \in [searchDiv : BOOLEAN, blocks : SeqsUpTo(Blocks, MaxBlocks)] :
            \A i \in 1..Len(p.blocks) : p.blocks[i].inSearch => p.searchDiv}

MaxResultsSet == (-1)..MaxResultsBound

\* search_div.select("div.MjjYud"): indices of the candidate blocks, in
\* document order, scoped to the search div when there is one
RECURSIVE Candidates(_, _)
Candidates(p, i) ==
    IF i > Len(p.blocks) THEN <<>>
    ELSE IF p.searchDiv /\ ~p.blocks[i].inSearch THEN Candidates(p, i + 1)
    ELSE <<i>> \o Candidates(p, i + 1)

\* The loop with the rank advanced for skipped blocks as well.
RECURSIVE ExtractLoop_rankOnSkip(_, _, _, _, _)
ExtractLoop_rankOnSkip(p, cs, k, rank, max) ==
    IF k > Len(cs) THEN <<>>
    ELSE IF rank > max THEN <<>>
    ELSE IF ~p.blocks[cs[k]].link \/ ~p.blocks[cs[k]].h3
    THEN ExtractLoop_rankOnSkip(p, cs, k + 1, rank + 1, max)
    ELSE <<[rank |-> rank, block |-> cs[k]]>>
         \o ExtractLoop_rankOnSkip(p, cs, k + 1, rank + 1, max)

\* The loop with the cap tested one record late.
RECURSIVE ExtractLoop_lateBreak(_, _, _, _, _)
ExtractLoop_lateBreak(p, cs, k, rank, max) ==
    IF k > Len(cs) THEN <<>>
    ELSE IF rank > max + 1 THEN <<>>
    ELSE IF ~p.blocks[cs[k]].link \/ ~p.blocks[cs[k]].h3
    THEN ExtractLoop_lateBreak(p, cs, k + 1, rank, max)
    ELSE <<[rank |-> rank, block |-> cs[k]]>>
         \o ExtractLoop_lateBreak(p, cs, k + 1, rank + 1, max)

\* The loop left once the rank reaches the cap.
RECURSIVE ExtractLoop_earlyBreak(_, _, _, _, _)
ExtractLoop_earlyBreak(p, cs, k, rank, max) ==
    IF k > Len(cs) THEN <<>>
    ELSE IF rank >= max THEN <<>>
    ELSE IF ~p.blocks[cs[k]].link \/ ~p.blocks[cs[k]].h3
    THEN ExtractLoop_earlyBreak(p, cs, k + 1, rank, max)
    ELSE <<[rank |-> rank, block |-> cs[k]]>>
         \o ExtractLoop_earlyBreak(p, cs, k + 1, rank + 1, max)

\* the loop of extract_results over the candidate blocks cs from position k
RECURSIVE ExtractLoop(_, _, _, _, _)
ExtractLoop(p, cs, k, rank, max) ==
    IF k > Len(cs) THEN <<>>
    ELSE IF rank > max THEN <<>>
    ELSE IF ~p.blocks[cs[k]].link \/ ~p.blocks[cs[k]].h3
    THEN ExtractLoop(p, cs, k + 1, rank, max)
    ELSE <<[rank |-> rank, block |-> cs[k]]>>
         \o ExtractLoop(p, cs, k + 1, rank + 1, max)

\* ResilientGoogleScraper.extract_results on a page whose source was read
ExtractResults(p, max) == ExtractLoop(p, Candidates(p, 1), 1, 1, max)

\* ------------------------------------------- the record of one candidate
\* A text node is a sequence of characters; the text of an element is the
\* sequence of its text nodes in document order.
Texts == {<<>>, << <<"a">> >>, << <<" ", "b", " ">> >>,
          << <<" ", "b", " ">>, <<" ">>, <<"a">> >>}

\* str.strip() of one text node
RECURSIVE LStrip(_)
LStrip(n) == IF n # <<>> /\ Head(n) = " " THEN LStrip(Tail(n)) ELSE n
RECURSIVE RStrip(_)
RStrip(n) ==
    IF n # <<>> /\ n[Len(n)] = " " THEN RStrip(SubSeq(n, 1, Len(n) - 1))
    ELSE n
Strip(n) == RStrip(LStrip(n))

\* Tag.get_text(strip=True): the stripped text nodes, joined with ""
RECURSIVE GetTextStrip(_)
GetTextStrip(nodes) ==
    IF nodes = <<>> THEN <<>>
    ELSE Strip(Head(nodes)) \o GetTextStrip(Tail(nodes))

\* the classes of ".IsZvec, .VwiC3b, span.aCOpRe, .s3v9rd, .st"
SnippetClasses == {"IsZvec", "VwiC3b", "aCOpRe", "s3v9rd", "st"}
\* the elements of a block that carry a class, in document order
SnippetElems == [cls : {"VwiC3b", "st", "other"}, text : Texts]

\* select_one taking the first element whatever its class
SelectOne_anyClass(els, i) ==
    IF i > Len(els) THEN 0 ELSE i

\* result.select_one(<snippet selector>): index of the first element in
\* document order that matches any descriptor of the list, 0 for None
RECURSIVE SelectOne(_, _)
SelectOne(els, i) ==
    IF i > Len(els) THEN 0
    ELSE IF els[i].cls \in SnippetClasses THEN i
    ELSE SelectOne(els, i + 1)

\* A url is a sequence of tokens.  The href values a result link carries:
\* empty, relative, or absolute with optional userinfo and port and a
\* host that is a name, a bracketed IPv6 literal or an unclosed bracket.
HostTexts == {<<"host">>, <<"[", "::1", "]">>, <<"[", "::1">>}
Absolute(u, h, p) ==
    <<"https:", "//">> \o (IF u THEN <<"user@">> ELSE <<>>) \o h
        \o (IF p THEN <<":8080">> ELSE <<>>) \o <<"/path">>
UrlTexts ==
    {<<>>, <<"/path">>}
        \cup {Absolute(u, h, p) :
                 u \in BOOLEAN, h \in HostTexts, p \in BOOLEAN}

\* the href attribute of the main link: absent, or present with a value
HrefAttrs == {[present |-> FALSE, text |-> <<>>]}
                 \cup [present : {TRUE}, text : UrlTexts]

\* the tokens of t up to the first path token
RECURSIVE SplitNetloc(_)
SplitNetloc(t) ==
    IF t = <<>> \/ Head(t) = "/path" THEN <<>>
    ELSE <<Head(t)>> \o SplitNetloc(Tail(t))

Has(t, c) == \E i \in 1..Len(t) : t[i] = c

\* urllib.parse.urlparse(t): the scheme is taken off, a netloc is read
\* only after "//", and a netloc with one bracket but not the other
\* raises ValueError("Invalid IPv6 URL")
Urlparse(t) ==
    LET rest == IF t # <<>> /\ Head(t) = "https:" THEN Tail(t) ELSE t
        netloc == IF rest # <<>> /\ Head(rest) = "//"
                  THEN SplitNetloc(Tail(rest)) ELSE <<>>
    IN [raises |-> Has(netloc, "[") # Has(netloc, "]"), netloc |-> netloc]

\* the one-character placeholder of lines 487 and 489 (an em dash)
EmDash == "U+2014"

\* what the loop body reads from a candidate that has a link and a heading
BlockContents ==
    [href : HrefAttrs,
     h3 : {<< <<"a">> >>, << <<" ", "b", " ">> >>},
     snips : SeqsUpTo(SnippetElems, MaxSnippetElems)]
NoBlockContent == [href |-> [present |-> FALSE, text |-> <<>>],
                   h3 |-> << <<"a">> >>, snips |-> <<>>]
NoRecord == [rank |-> 0, title |-> <<>>, snippet |-> <<>>, url |-> <<>>,
             domain |-> <<>>]

\* lines 487-494 for one candidate: the SearchResult appended, or the
\* exception of urlparse leaving extract_results
Record(b, rank) ==
    LET href == IF b.href.present THEN b.href.text ELSE <<EmDash>>
        sn == SelectOne(b.snips, 1)
        parsed == Urlparse(href)
    IN IF parsed.raises THEN [raised |-> TRUE, rec |-> NoRecord]
       ELSE [raised |-> FALSE,
             rec |-> [rank |-> rank,
                      title |-> GetTextStrip(b.h3),
                      snippet |-> IF sn = 0 THEN <<EmDash>>
                                  ELSE GetTextStrip(b.snips[sn].text),
                      url |-> href,
                      domain |-> parsed.netloc]]

\* ------------------------------------------------- the urls navigated to
\* str.split("-"): the segments between the dashes, in order
RECURSIVE Split(_, _)
Split(s, cur) ==
    IF s = <<>> THEN <<cur>>
    ELSE IF Head(s) = "-" THEN <<cur>> \o Split(Tail(s), <<>>)
    ELSE Split(Tail(s), Append(cur, Head(s)))

\* quote_plus of one character: letters and "-" are kept, a space becomes
\* "+", every other character is percent-encoded
QuotePlusChar(c) ==
    IF c = " " THEN <<"+">>
    ELSE IF c = "&" THEN <<"%", "2", "6">>
    ELSE IF c = "+" THEN <<"%", "2", "B">>
    ELSE IF c = "=" THEN <<"%", "3", "D">>
    ELSE <<c>>

RECURSIVE QuotePlus(_)
QuotePlus(s) ==
    IF s = <<>> THEN <<>> ELSE QuotePlusChar(Head(s)) \o QuotePlus(Tail(s))

\* urlencode(params) and urlencode(params, quote_via=quote_plus): the
\* pairs k=v in insertion order, joined with "&", keys and values quoted
RECURSIVE Urlencode(_)
Urlencode(params) ==
    IF params = <<>> THEN <<>>
    ELSE QuotePlus(Head(params)[1]) \o <<"=">> \o QuotePlus(Head(params)[2])
             \o (IF Len(params) > 1 THEN <<"&">> ELSE <<>>)
             \o Urlencode(Tail(params))

\* the locale parameters with gl taken from a locale without a dash too
LocaleParams_glAlways(lang) ==
    LET segs == Split(lang, <<>>) IN
    << <<<<"h", "l">>, segs[1]>>, <<<<"g", "l">>, segs[Len(segs)]>> >>

\* params["hl"] = lang.split("-")[0]; params["gl"] = lang.split("-")[-1]
\* only if "-" in lang
LocaleParams(lang) ==
    LET segs == Split(lang, <<>>) IN
    << <<<<"h", "l">>, segs[1]>> >>
        \o (IF \E i \in 1..Len(lang) : lang[i] = "-"
            THEN << <<<<"g", "l">>, segs[Len(segs)]>> >> ELSE <<>>)

\* f"{base}/?{urlencode(params)}" of the prober
ProbeUrl(base, lang) ==
    [base |-> base, path |-> "/", qs |-> Urlencode(LocaleParams(lang))]

\* the url of _direct_search
DirectSearchUrl(q, lang) ==
    [base |-> "https://www.google.com", path |-> "/search",
     qs |-> Urlencode(<< <<<<"q">>, q>> >> \o LocaleParams(lang))]

NoUrl == [base |-> None, path |-> None, qs |-> <<>>]

\* the locales and queries examined; "de-DE" and "zumba" are among them
Locales == SeqsUpTo({"a", "B", "-"}, MaxLocaleLen)
               \cup {<<"d", "e", "-", "D", "E">>}
Queries == SeqsUpTo({"z", " ", "&", "+"}, MaxQueryLen)
               \cup {<<"z", "u", "m", "b", "a">>}

\* ----------------------------------------------------- _locate_search_input
\* An element a lookup returned: what is_displayed() says about it (or that
\* the check raises) and its type attribute.
LocElems == [state : {"visible", "hidden", "check_raises"},
             type : {"text", "search", "", "submit"}]

\* driver.find_elements(...): it raises or returns a list of elements
LocLookups == {[raises |-> TRUE, els |-> <<>>]}
                  \cup [raises : {FALSE}, els : SeqsUpTo(LocElems, MaxLocElems)]
NoLookup == [raises |-> FALSE, els |-> <<>>]
NotLocated == [tier |-> "none", idx |-> 0, el |-> 0]

\* the type filter accepting the type "text" only
TypeAccepted_textOnly(tier, t) ==
    tier # "input" \/ t = "text"

\* t in ("text", "search", ""), which only the generic input scan applies
TypeAccepted(tier, t) ==
    tier # "input" \/ t \in {"text", "search", ""}

\* the loop over the elements with a raising check ending the loop
RECURSIVE FirstDisplayed_stopOnRaise(_, _, _)
FirstDisplayed_stopOnRaise(els, i, tier) ==
    IF i > Len(els) THEN 0
    ELSE IF els[i].state = "check_raises" THEN 0
    ELSE IF els[i].state = "visible" /\ TypeAccepted(tier, els[i].type) THEN i
    ELSE FirstDisplayed_stopOnRaise(els, i + 1, tier)

\* the loop over the elements of one lookup: index of the first element
\* that is displayed (and, in the generic input scan, has an accepted
\* type), 0 if there is none; a raising check goes on to the next element
RECURSIVE FirstDisplayed(_, _, _)
FirstDisplayed(els, i, tier) ==
    IF i > Len(els) THEN 0
    ELSE IF els[i].state = "visible" /\ TypeAccepted(tier, els[i].type) THEN i
    ELSE FirstDisplayed(els, i + 1, tier)

\* what is kept of a lookup that was passed over: whether it raised and
\* the types of the elements it returned that are displayed
Summary(tier, idx, lk) ==
    LET shown == {j \in 1..Len(lk.els) : lk.els[j].state = "visible"} IN
    [tier |-> tier, idx |-> idx, raised |-> lk.raises,
     visTypes |-> {lk.els[i].type : i \in shown}]

\* ------------------------------------------------ _accept_cookies_resilient
\* An element a consent lookup returned: what is_displayed() / is_enabled()
\* say about it, whether click() raises, and whether the
\* switch_to.default_content() after a click inside an iframe raises.
CookieElems == [state : {"hidden", "disabled", "check_raises", "clickable"},
                click : Raises, back : Raises]

\* driver.find_elements(by, sel): it raises or returns a list of elements
CookieLookups == [raises : BOOLEAN,
                  els : SeqsUpTo(CookieElems, MaxCookieElems)]

\* the loop over the elements of one selector in the top-level document:
\* TRUE when a click succeeded (return True); a raising visibility check
\* ends the selector, a raising click goes on to the next element
RECURSIVE ScanTop(_, _)
ScanTop(els, i) ==
    IF i > Len(els) THEN FALSE
    ELSE IF els[i].state = "check_raises" THEN FALSE
    ELSE IF els[i].state # "clickable" THEN ScanTop(els, i + 1)
    ELSE IF els[i].click = "ok" THEN TRUE
    ELSE ScanTop(els, i + 1)

\* the loop over the elements of one selector inside an iframe: after a
\* successful click switch_to.default_content() runs inside the same try
\* block, so when it raises the loop goes on without returning
RECURSIVE ScanFrame(_, _, _)
ScanFrame(els, i, clicked) ==
    IF i > Len(els) THEN [ret |-> FALSE, clicked |-> clicked]
    ELSE IF els[i].state = "check_raises"
    THEN [ret |-> FALSE, clicked |-> clicked]
    ELSE IF els[i].state # "clickable" THEN ScanFrame(els, i + 1, clicked)
    ELSE IF els[i].click = "raises" THEN ScanFrame(els, i + 1, clicked)
    ELSE IF els[i].back = "ok" THEN [ret |-> TRUE, clicked |-> TRUE]
    ELSE ScanFrame(els, i + 1, TRUE)

\* ------------------------------------------------------- outcomes of a call
\* every outcome one candidate of the prober can have
ProbeResults == {ProbeOne(o) : o \in ProbeInputs}

\* everything search() can do, with debug capture disabled and enabled
SearchResultsPlain == {Search(in, FALSE) : in \in SearchInputs}
SearchResultsDebug == {Search(in, TRUE) : in \in SearchInputs}

\* every list extract_results can return
ResultLists == {ExtractResults(p, m) : p \in Pages, m \in MaxResultsSet}

\* ---------------------------------------------------------------- initial state
EmptyPage == [searchDiv |-> FALSE, blocks |-> <<>>]

\* ResilientGoogleScraper.__init__
InitScraper ==
    /\ debug \in BOOLEAN
    /\ driver = NoDriver
    /\ quit_called = FALSE
    /\ created = 0
    /\ torn = [s \in Sessions |-> 0]
    /\ stopOps = <<>>
    /\ stopRaised = FALSE
    /\ lastCall = None
    /\ stopStreak = 0
    /\ pc = "idle"
    /\ entryDriver = NoDriver
    /\ startFailed = FALSE
    /\ stopsInRun = 0
    /\ cand = 1
    /\ visited = <<>>
    /\ last_exc = NoExc
    /\ probeRet = NotReturned
    /\ domain_used = NoDomain
    /\ consent = FALSE
    /\ srch = NoSearch
    /\ extracted = FALSE
    /\ results = <<>>
    /\ err = None
    /\ outcome = None
    /\ exDone = FALSE

NoQuitInput == [closeR |-> "ok", quitR |-> "ok", svc |-> "absent",
                killR |-> "ok"]

NoSearchInput == [loc |-> "none", tag |-> "native", sendText |-> "ok",
                  sendEnter |-> "ok", setJs |-> "ok", keyEvents |-> "ok",
                  wait |-> "present", errWrite |-> "ok", d1 |-> "present",
                  d2 |-> "present"]

\* no search() is under study
InitSearchUnit == sIn = NoSearchInput

\* _accept_cookies_resilient has not been called
InitConsentUnit ==
    /\ cPc = "idle"
    /\ cSel = 1
    /\ cFrame = 1
    /\ cFrames = 0
    /\ cCtx = "top"
    /\ cClicked = FALSE
    /\ cRet = None

\* no candidate block is under study
InitRecordUnit ==
    /\ rIn = NoBlockContent
    /\ rPc = "idle"
    /\ rec = NoRecord

\* the default locale "en-US", no url built yet
InitUrlUnit ==
    /\ preferred_lang = <<"e", "n", "-", "U", "S">>
    /\ query = <<>>
    /\ probeUrl = NoUrl
    /\ directUrl = NoUrl

\* main has not been invoked
InitMainUnit ==
    /\ mPc = "idle"
    /\ stdout = <<>>

\* _locate_search_input has not been called
InitLocateUnit ==
    /\ lPc = "idle"
    /\ lIdx = 1
    /\ lLog = <<>>
    /\ lHit = NoLookup
    /\ lRet = NotLocated

\* GetResults.__init__ started a browser, kept its handle in self.driver
\* and quit it; no run request has arrived
InitServerUnit ==
    /\ sDriver = 1
    /\ sCreated = 1
    /\ sAlive = {}
    /\ rpc = [r \in Requests |-> "wait"]
    /\ own = [r \in Requests |-> 0]
    /\ drove = [r \in Requests |-> {}]
    /\ quitBy = [r \in Requests |-> {}]

\* none of the calls studied on their own is under study
InitUnits ==
    /\ InitSearchUnit
    /\ InitConsentUnit
    /\ InitRecordUnit
    /\ InitUrlUnit
    /\ InitMainUnit
    /\ InitLocateUnit
    /\ InitServerUnit

Init ==
    /\ InitScraper
    /\ InitUnits
    /\ quitIn = NoQuitInput
    /\ max_results = 0
    /\ page = EmptyPage

\* ------------------------------------------------- calls made by the owner
\* scraper.start() called directly
Start ==
    /\ pc = "idle"
    /\ \E ok \in BOOLEAN : StartCall(ok)
    /\ Called("start")
    /\ UNCHANGED <<debug, quit_called, torn, stopVars, pc, probeVars, runVars,
                   extractVars>>

\* scraper.stop() called directly
Stop ==
    /\ pc = "idle"
    /\ \E closeR \in Raises, quitR \in Raises, svc \in ServiceStates,
          killR \in Raises : StopCall(closeR, quitR, svc, killR)
    /\ Called("stop")
    /\ UNCHANGED <<debug, created, pc, probeVars, runVars, extractVars>>

\* ------------------------------------------------------------------ run_once
\* entry of run_once: domain_used = None, the try block is entered; what is
\* remembered of the previous run is dropped
RunBegin ==
    /\ pc = "idle"
    /\ pc' = "start"
    /\ entryDriver' = driver
    /\ startFailed' = FALSE
    /\ stopsInRun' = 0
    /\ cand' = 1
    /\ visited' = <<>>
    /\ last_exc' = NoExc
    /\ probeRet' = NotReturned
    /\ domain_used' = NoDomain
    /\ consent' = FALSE
    /\ srch' = NoSearch
    /\ extracted' = FALSE
    /\ results' = <<>>
    /\ err' = None
    /\ outcome' = None
    /\ UNCHANGED <<scraperVars, worldVars, stopVars, callVars, max_results,
                   extractVars>>

\* run_once that leaves on a start failure without its finally block.
RunStart_noFinally ==
    /\ pc = "start"
    /\ \E ok \in BOOLEAN :
          /\ StartCall(ok)
          /\ startFailed' = ~ok
          /\ err' = IF ok THEN None ELSE "StartupError"
          /\ pc' = IF ok THEN "probe" ELSE "idle"
          /\ outcome' = IF ok THEN None ELSE "raised"
    /\ Called("start")
    /\ UNCHANGED <<debug, quit_called, torn, stopVars, max_results, entryDriver,
                   stopsInRun, probeVars, consent, srch, extracted, results,
                   extractVars>>

\* self.start() inside run_once
RunStart ==
    /\ pc = "start"
    /\ \E ok \in BOOLEAN :
          /\ StartCall(ok)
          /\ startFailed' = ~ok
          /\ err' = IF ok THEN None ELSE "StartupError"
          /\ pc' = IF ok THEN "probe" ELSE "finally"
    /\ Called("start")
    /\ UNCHANGED <<debug, quit_called, torn, stopVars, max_results, entryDriver,
                   stopsInRun, probeVars, consent, srch, extracted, results,
                   outcome, extractVars>>

\* A probing loop that records only the first exception it sees.
ProbeCandidate_firstExc ==
    /\ pc = "probe"
    /\ cand <= NumCandidates
    /\ \E r \in ProbeResults :
          /\ visited' = Append(visited, [cand |-> cand, outcome |-> r])
          /\ IF Detected(r)
             THEN /\ probeRet' = [returned |-> TRUE, domain |-> cand,
                                 error |-> NoExc]
                  /\ domain_used' = cand
                  /\ pc' = "consent"
                  /\ UNCHANGED <<cand, last_exc>>
             ELSE /\ last_exc' = IF last_exc = NoExc
                                 THEN [cand |-> cand, kind |-> r]
                                 ELSE last_exc
                  /\ cand' = cand + 1
                  /\ UNCHANGED <<probeRet, domain_used, pc>>
    /\ Called("open")
    /\ UNCHANGED <<scraperVars, worldVars, stopVars, runVars, extractVars>>

\* A probing loop that goes on to the next candidate after a detection.
ProbeCandidate_noReturn ==
    /\ pc = "probe"
    /\ cand <= NumCandidates
    /\ \E r \in ProbeResults :
          /\ visited' = Append(visited, [cand |-> cand, outcome |-> r])
          /\ IF Detected(r)
             THEN /\ probeRet' = [returned |-> TRUE, domain |-> cand,
                                 error |-> NoExc]
                  /\ domain_used' = cand
                  /\ pc' = IF cand = NumCandidates THEN "consent" ELSE pc
                  /\ cand' = IF cand = NumCandidates THEN cand ELSE cand + 1
                  /\ UNCHANGED last_exc
             ELSE /\ last_exc' = [cand |-> cand, kind |-> r]
                  /\ pc' = IF cand = NumCandidates /\ domain_used # NoDomain
                           THEN "consent" ELSE pc
                  /\ cand' = IF cand = NumCandidates /\ domain_used # NoDomain
                             THEN cand ELSE cand + 1
                  /\ UNCHANGED <<probeRet, domain_used>>
    /\ Called("open")
    /\ UNCHANGED <<scraperVars, worldVars, stopVars, runVars, extractVars>>

\* one iteration of the loop of _try_open_domain_variations, entered from
\* open_google_resilient: the candidate is navigated to and either returned
\* or its exception becomes last_exc
ProbeCandidate ==
    /\ pc = "probe"
    /\ cand <= NumCandidates
    /\ \E r \in ProbeResults :
          /\ visited' = Append(visited, [cand |-> cand, outcome |-> r])
          /\ IF Detected(r)
             THEN /\ probeRet' = [returned |-> TRUE, domain |-> cand,
                                 error |-> NoExc]
                  /\ domain_used' = cand
                  /\ pc' = "consent"
                  /\ UNCHANGED <<cand, last_exc>>
             ELSE /\ last_exc' = [cand |-> cand, kind |-> r]
                  /\ cand' = cand + 1
                  /\ UNCHANGED <<probeRet, domain_used, pc>>
    /\ Called("open")
    /\ UNCHANGED <<scraperVars, worldVars, stopVars, runVars, extractVars>>

\* open_google_resilient that goes on without an access point.
ProbeExhausted_goesOn ==
    /\ pc = "probe"
    /\ cand > NumCandidates
    /\ probeRet' = [returned |-> TRUE, domain |-> NoDomain,
                    error |-> last_exc]
    /\ pc' = "consent"
    /\ UNCHANGED <<scraperVars, worldVars, stopVars, callVars, cand, visited,
                   last_exc, domain_used, max_results, entryDriver,
                   startFailed, stopsInRun, consent, srch, extracted, results,
                   err, outcome, extractVars>>

\* the loop ran out of candidates: _try_open_domain_variations returns
\* (None, last_exc) and open_google_resilient raises RuntimeError
ProbeExhausted ==
    /\ pc = "probe"
    /\ cand > NumCandidates
    /\ probeRet' = [returned |-> TRUE, domain |-> NoDomain,
                    error |-> last_exc]
    /\ err' = "OpenFailure"
    /\ pc' = "finally"
    /\ UNCHANGED <<scraperVars, worldVars, stopVars, callVars, cand, visited,
                   last_exc, domain_used, max_results, entryDriver,
                   startFailed, stopsInRun, consent, srch, extracted, results,
                   outcome, extractVars>>

\* the rest of open_google_resilient once the prober returned a candidate:
\* _accept_cookies_resilient is called inside a try/except and its return
\* value is discarded; the prober's locals and the record of its
\* navigations end with the call
RunConsent ==
    /\ pc = "consent"
    /\ consent' = TRUE
    /\ cand' = 1
    /\ visited' = <<>>
    /\ last_exc' = NoExc
    /\ pc' = "search"
    /\ UNCHANGED <<scraperVars, worldVars, stopVars, callVars, probeRet,
                   domain_used, max_results, entryDriver, startFailed,
                   stopsInRun, srch, extracted, results, err, outcome,
                   extractVars>>

\* self.search(query) inside run_once
RunSearch ==
    /\ pc = "search"
    /\ \E s \in IF debug THEN SearchResultsDebug ELSE SearchResultsPlain :
          /\ srch' = s
          /\ err' = IF s.raised THEN "SearchError" ELSE None
          /\ pc' = IF s.raised THEN "finally" ELSE "extract"
    /\ Called("search")
    /\ UNCHANGED <<scraperVars, worldVars, stopVars, probeVars, max_results,
                   entryDriver, startFailed, stopsInRun, consent, extracted,
                   results, outcome, extractVars>>

\* self.extract_results(max_results) inside run_once: reading page_source
\* may raise, otherwise the parsed page is extracted
RunExtract ==
    /\ pc = "extract"
    /\ extracted' = TRUE
    /\ \/ /\ err' = "ExtractError"
          /\ UNCHANGED results
       \/ /\ results' \in ResultLists
          /\ UNCHANGED err
    /\ pc' = "finally"
    /\ Called("extract")
    /\ UNCHANGED <<scraperVars, worldVars, stopVars, probeVars, max_results,
                   entryDriver, startFailed, stopsInRun, consent, srch,
                   outcome, extractVars>>

\* the finally block of run_once: self.stop() with its exception swallowed,
\* then the return value or the pending exception reaches the caller
RunFinally ==
    /\ pc = "finally"
    /\ \E closeR \in Raises, quitR \in Raises, svc \in ServiceStates,
          killR \in Raises : StopCall(closeR, quitR, svc, killR)
    /\ stopsInRun' = stopsInRun + 1
    /\ outcome' = IF err = None THEN "returned" ELSE "raised"
    /\ pc' = "idle"
    /\ Called("stop")
    /\ UNCHANGED <<debug, created, probeVars, max_results, entryDriver,
                   startFailed, consent, srch, extracted, results, err,
                   extractVars>>

Next ==
    \/ Start
    \/ Stop
    \/ RunBegin
    \/ RunStart
    \/ ProbeCandidate
    \/ ProbeExhausted
    \/ RunConsent
    \/ RunSearch
    \/ RunExtract
    \/ RunFinally

Spec == Init /\ [][Next]_vars

\* ------------------------------------------- extract_results on its own
\* a results page with twelve well-formed blocks inside the search div
TwelveBlockPage ==
    [searchDiv |-> TRUE,
     blocks |-> [i \in 1..12 |-> [inSearch |-> TRUE, link |-> TRUE,
                                  h3 |-> TRUE]]]

\* a fresh scraper, an arbitrary page and an arbitrary max_results; the
\* twelve-block page and max_results = 5 are among them
InitExtract ==
    /\ InitScraper
    /\ InitUnits
    /\ quitIn = NoQuitInput
    /\ max_results \in MaxResultsSet \cup {5}
    /\ page \in Pages \cup {TwelveBlockPage}

\* scraper.start() before the extraction
ExtractStart ==
    /\ pc = "idle"
    /\ lastCall = None
    /\ StartCall(TRUE)
    /\ Called("start")
    /\ UNCHANGED <<debug, quit_called, torn, stopVars, pc, probeVars, runVars,
                   extractVars>>

\* scraper.extract_results(max_results) on the page the driver shows
ExtractCall ==
    /\ pc = "idle"
    /\ lastCall = "start"
    /\ driver # NoDriver
    /\ extracted' = TRUE
    /\ \/ /\ err' = "ExtractError"
          /\ UNCHANGED <<results, exDone>>
       \/ /\ results' = ExtractResults(page, max_results)
          /\ exDone' = TRUE
          /\ UNCHANGED err
    /\ Called("extract")
    /\ UNCHANGED <<scraperVars, worldVars, stopVars, pc, probeVars,
                   max_results, entryDriver, startFailed, stopsInRun, consent,
                   srch, outcome, page, quitIn, unitVars>>

NextExtract ==
    \/ ExtractStart
    \/ ExtractCall

SpecExtract == InitExtract /\ [][NextExtract]_vars

\* ---------------------------------------------------- a teardown on its own
\* a fresh scraper and an arbitrary behaviour of the driver during teardown
InitQuit ==
    /\ InitScraper
    /\ InitUnits
    /\ quitIn \in QuitInputs
    /\ max_results = 0
    /\ page = EmptyPage

\* scraper.start(), once
QuitStart ==
    /\ pc = "idle"
    /\ lastCall = None
    /\ \E ok \in BOOLEAN : StartCall(ok)
    /\ Called("start")
    /\ UNCHANGED <<debug, quit_called, torn, stopVars, pc, probeVars, runVars,
                   extractVars>>

\* scraper.stop() with the driver behaving as quitIn says
QuitStop ==
    /\ pc = "idle"
    /\ StopCall(quitIn.closeR, quitIn.quitR, quitIn.svc, quitIn.killR)
    /\ Called("stop")
    /\ UNCHANGED <<debug, created, pc, probeVars, runVars, extractVars>>

NextQuit ==
    \/ QuitStart
    \/ QuitStop

SpecQuit == InitQuit /\ [][NextQuit]_vars

\* ------------------------------------------------------ search on its own
\* a fresh scraper and an arbitrary behaviour of the driver during search
InitSearch ==
    /\ InitScraper
    /\ InitConsentUnit
    /\ InitRecordUnit
    /\ InitUrlUnit
    /\ InitMainUnit
    /\ InitLocateUnit
    /\ InitServerUnit
    /\ sIn \in SearchInputs
    /\ quitIn = NoQuitInput
    /\ max_results = 0
    /\ page = EmptyPage

\* scraper.search(query) on a started scraper
SearchCall ==
    /\ pc = "idle"
    /\ lastCall = "start"
    /\ driver # NoDriver
    /\ srch' = Search(sIn, debug)
    /\ err' = IF srch'.raised THEN "SearchError" ELSE None
    /\ Called("search")
    /\ UNCHANGED <<scraperVars, worldVars, stopVars, pc, probeVars,
                   max_results, entryDriver, startFailed, stopsInRun, consent,
                   extracted, results, outcome, extractVars>>

NextSearch ==
    \/ ExtractStart
    \/ SearchCall

SpecSearch == InitSearch /\ [][NextSearch]_vars

\* ------------------------------------ the record of one candidate block
\* a fresh scraper and an arbitrary candidate with a link and a heading
InitRecord ==
    /\ InitScraper
    /\ InitSearchUnit
    /\ InitConsentUnit
    /\ InitUrlUnit
    /\ InitMainUnit
    /\ InitLocateUnit
    /\ InitServerUnit
    /\ rIn \in BlockContents
    /\ rPc = "idle"
    /\ rec = NoRecord
    /\ quitIn = NoQuitInput
    /\ max_results = 1
    /\ page = EmptyPage

\* scraper.extract_results(1) on a page whose first candidate is rIn
RecordCall ==
    /\ pc = "idle"
    /\ lastCall = "start"
    /\ driver # NoDriver
    /\ rPc = "idle"
    /\ LET r == Record(rIn, 1) IN
          /\ rPc' = IF r.raised THEN "raised" ELSE "emitted"
          /\ rec' = r.rec
    /\ Called("extract")
    /\ UNCHANGED <<scraperVars, worldVars, stopVars, pc, probeVars, runVars,
                   page, exDone, quitIn, sIn, consentVars, urlVars, mainVars,
                   locateVars, serverVars, rIn>>

NextRecord ==
    \/ ExtractStart
    \/ RecordCall

SpecRecord == InitRecord /\ [][NextRecord]_vars

\* ------------------------------------------------ the urls on their own
\* a fresh scraper with an arbitrary preferred_lang, and an arbitrary query
InitUrl ==
    /\ InitScraper
    /\ InitSearchUnit
    /\ InitConsentUnit
    /\ InitRecordUnit
    /\ InitMainUnit
    /\ InitLocateUnit
    /\ InitServerUnit
    /\ preferred_lang \in Locales
    /\ query \in Queries
    /\ probeUrl = NoUrl
    /\ directUrl = NoUrl
    /\ quitIn = NoQuitInput
    /\ max_results = 0
    /\ page = EmptyPage

\* the prober builds the url of its first candidate and navigates to it
UrlProbe ==
    /\ pc = "idle"
    /\ driver # NoDriver
    /\ probeUrl = NoUrl
    /\ probeUrl' = ProbeUrl("https://www.google.com", preferred_lang)
    /\ UNCHANGED <<serverVars, coreVars, sIn, consentVars, recordVars, mainVars,
                   locateVars, preferred_lang,
                   query, directUrl>>

\* _direct_search(query) builds its url and navigates to it
UrlDirect ==
    /\ pc = "idle"
    /\ driver # NoDriver
    /\ directUrl = NoUrl
    /\ directUrl' = DirectSearchUrl(query, preferred_lang)
    /\ UNCHANGED <<serverVars, coreVars, sIn, consentVars, recordVars, mainVars,
                   locateVars, preferred_lang,
                   query, probeUrl>>

NextUrl ==
    \/ ExtractStart
    \/ UrlProbe
    \/ UrlDirect

SpecUrl == InitUrl /\ [][NextUrl]_vars

\* ------------------------------------------------------------------ main
\* main constructs the scraper outside its try block: with --debug the
\* constructor creates the debug directory, and a failing mkdir leaves main
MainBegin ==
    /\ mPc = "idle"
    /\ pc = "idle"
    /\ lastCall = None
    /\ \E mkdir \in Raises :
          mPc' = IF debug /\ mkdir = "raises" THEN "escaped"
                 ELSE "constructed"
    /\ UNCHANGED <<serverVars, coreVars, sIn, consentVars, recordVars, urlVars,
                   locateVars,
                   stdout>>

\* main calls scraper.run_once(...) inside its try block, once
MainRunOnce ==
    /\ mPc = "constructed"
    /\ lastCall = None
    /\ RunBegin

\* run_once has returned or raised: main prints {domain_used, results},
\* or {error} with a trace when debug is on, and returns
MainPrint ==
    /\ mPc = "constructed"
    /\ pc = "idle"
    /\ outcome # None
    /\ mPc' = "returned"
    /\ stdout' = Append(stdout,
          IF outcome = "raised"
          THEN [error |-> err, trace |-> debug, hasResults |-> FALSE,
                domain_used |-> NoDomain, results |-> <<>>]
          ELSE [error |-> None, trace |-> FALSE, hasResults |-> TRUE,
                domain_used |-> domain_used, results |-> results])
    /\ UNCHANGED <<serverVars, coreVars, sIn, consentVars, recordVars, urlVars,
                   locateVars>>

NextMain ==
    \/ MainBegin
    \/ MainRunOnce
    \/ RunStart
    \/ ProbeCandidate
    \/ ProbeExhausted
    \/ RunConsent
    \/ RunSearch
    \/ RunExtract
    \/ RunFinally
    \/ MainPrint

SpecMain == Init /\ [][NextMain]_vars

\* ----------------------------------------- _locate_search_input on its own
\* scraper._locate_search_input() is entered on a started scraper
LocateBegin ==
    /\ pc = "idle"
    /\ driver # NoDriver
    /\ lPc = "idle"
    /\ lPc' = "css"
    /\ UNCHANGED <<serverVars, coreVars, sIn, consentVars, recordVars, urlVars,
                   mainVars,
                   lIdx, lLog, lHit, lRet>>

\* the lookup lk of descriptor lIdx of the tier `tier` (of n descriptors),
\* followed by the tier `next`: return the first displayed element, or
\* pass on to the next descriptor
LocateStep(tier, n, next, lk) ==
    LET k == IF lk.raises THEN 0 ELSE FirstDisplayed(lk.els, 1, tier) IN
    IF k # 0
    THEN /\ lRet' = [tier |-> tier, idx |-> lIdx, el |-> k]
         /\ lHit' = lk
         /\ lPc' = "done"
         /\ UNCHANGED <<lIdx, lLog>>
    ELSE /\ lLog' = Append(lLog, Summary(tier, lIdx, lk))
         /\ IF lIdx < n
            THEN lIdx' = lIdx + 1 /\ lPc' = tier
            ELSE lIdx' = 1 /\ lPc' = next
         /\ UNCHANGED <<lHit, lRet>>

\* one entry of search_input_selectors
LocateCss ==
    /\ lPc = "css"
    /\ \E lk \in LocLookups : LocateStep("css", NumSelectors, "xpath", lk)
    /\ UNCHANGED <<serverVars, coreVars, sIn, consentVars, recordVars, urlVars,
                   mainVars>>

\* one entry of search_input_xpaths
LocateXpath ==
    /\ lPc = "xpath"
    /\ \E lk \in LocLookups : LocateStep("xpath", NumXPaths, "input", lk)
    /\ UNCHANGED <<serverVars, coreVars, sIn, consentVars, recordVars, urlVars,
                   mainVars>>

\* the generic scan of the input elements: when the lookup raises, the
\* try block around the whole generic tier ends the method
LocateInput ==
    /\ lPc = "input"
    /\ \E lk \in LocLookups :
          LocateStep("input", 1, IF lk.raises THEN "done" ELSE "textarea", lk)
    /\ UNCHANGED <<serverVars, coreVars, sIn, consentVars, recordVars, urlVars,
                   mainVars>>

\* the generic scan of the textarea elements, then `return None, None`
LocateTextarea ==
    /\ lPc = "textarea"
    /\ \E lk \in LocLookups : LocateStep("textarea", 1, "done", lk)
    /\ UNCHANGED <<serverVars, coreVars, sIn, consentVars, recordVars, urlVars,
                   mainVars>>

NextLocate ==
    \/ ExtractStart
    \/ LocateBegin
    \/ LocateCss
    \/ LocateXpath
    \/ LocateInput
    \/ LocateTextarea

SpecLocate == Init /\ [][NextLocate]_vars

\* ------------------------------------------------- server.py: GetResults
\* a run request that is inside GetResults.run
Active(r) == rpc[r] \in {"open", "search", "extract", "quit"}

\* client.py sends its second run() after the first one has answered
ServeInTurn(r) == \A o \in Requests \ {r} : ~Active(o)

\* the shim hands a request to the object while another one is running
ServeInterleaved(r) == TRUE

\* what a command sent through self.driver does: it raises when the
\* browser behind the handle has been quit, otherwise it may do either
Command(o) == IF sDriver \in sAlive THEN o ELSE "raises"

\* run, line 73: self.driver = uc.Chrome(); when uc.Chrome() raises, run
\* ends and self.driver is left as it was
ServerRunBegin(r) ==
    /\ rpc[r] = "wait"
    /\ \E ok \in BOOLEAN :
          IF ok
          THEN /\ sCreated' = sCreated + 1
               /\ sDriver' = sCreated + 1
               /\ sAlive' = sAlive \cup {sCreated + 1}
               /\ own' = [own EXCEPT ![r] = sCreated + 1]
               /\ rpc' = [rpc EXCEPT ![r] = "open"]
          ELSE /\ rpc' = [rpc EXCEPT ![r] = "raised"]
               /\ UNCHANGED <<sCreated, sDriver, sAlive, own>>
    /\ UNCHANGED <<scraperSide, drove, quitBy>>

\* a step of run that sends commands through self.driver and leaves run
\* when one of them raises
ServerStep(r, at, next) ==
    /\ rpc[r] = at
    /\ drove' = [drove EXCEPT ![r] = @ \cup {sDriver}]
    /\ \E o \in Raises :
          rpc' = [rpc EXCEPT ![r] = IF Command(o) = "ok" THEN next
                                    ELSE "raised"]
    /\ UNCHANGED <<scraperSide, sDriver, sCreated, sAlive, own, quitBy>>

\* run, line 74: open_google; driver.get is unguarded, accept_cookies
\* swallows everything
ServerOpenGoogle(r) == ServerStep(r, "open", "search")

\* run, line 75: search_query; the lookup of the search box, its click and
\* send_keys are unguarded
ServerSearchQuery(r) == ServerStep(r, "search", "extract")

\* run, line 76: extract_results; driver.page_source is unguarded
ServerExtractResults(r) == ServerStep(r, "extract", "quit")

\* run, lines 77-78: self.driver.quit() on whatever self.driver holds
\* now, then return; when quit raises the browser may or may not be gone
ServerQuit(r) ==
    /\ rpc[r] = "quit"
    /\ quitBy' = [quitBy EXCEPT ![r] = @ \cup {sDriver}]
    /\ \E q \in Raises, gone \in BOOLEAN :
          /\ q = "ok" => gone
          /\ sAlive' = IF gone THEN sAlive \ {sDriver} ELSE sAlive
          /\ rpc' = [rpc EXCEPT ![r] = IF q = "ok" THEN "done" ELSE "raised"]
    /\ UNCHANGED <<scraperSide, sDriver, sCreated, own, drove>>

\* a run request is handed to the object; the requests inside run take
\* their next step
ServeRunInTurn == \E r \in Requests : ServeInTurn(r) /\ ServerRunBegin(r)
ServeRunInterleaved ==
    \E r \in Requests : ServeInterleaved(r) /\ ServerRunBegin(r)
ServeOpenGoogle == \E r \in Requests : Active(r) /\ ServerOpenGoogle(r)
ServeSearchQuery == \E r \in Requests : Active(r) /\ ServerSearchQuery(r)
ServeExtractResults == \E r \in Requests : Active(r) /\ ServerExtractResults(r)
ServeQuit == \E r \in Requests : Active(r) /\ ServerQuit(r)

\* the two run() calls of client.py, one after the other
NextServerSeq ==
    \/ ServeRunInTurn
    \/ ServeOpenGoogle
    \/ ServeSearchQuery
    \/ ServeExtractResults
    \/ ServeQuit

SpecServerSeq == Init /\ [][NextServerSeq]_vars

\* run requests that interleave on the one GetResults object
NextServer ==
    \/ ServeRunInterleaved
    \/ ServeOpenGoogle
    \/ ServeSearchQuery
    \/ ServeExtractResults
    \/ ServeQuit

SpecServer == Init /\ [][NextServer]_vars

\* ------------------------------------- _accept_cookies_resilient on its own
\* a fresh scraper; the driver answers each call as it comes
InitConsent == Init

\* scraper._accept_cookies_resilient() is entered on a started scraper
ConsentBegin ==
    /\ pc = "idle"
    /\ driver # NoDriver
    /\ cPc = "idle"
    /\ cPc' = "top"
    /\ cSel' = 1
    /\ UNCHANGED <<nonConsentVars, cFrame, cFrames, cCtx,
                   cClicked, cRet>>

\* the next frame of the loop over the iframes, or `return False` after
\* the last one
NextFrameOrReturn ==
    IF cFrame < cFrames
    THEN /\ cFrame' = cFrame + 1
         /\ cPc' = "enter"
         /\ UNCHANGED cRet
    ELSE /\ cRet' = "false"
         /\ cPc' = "done"
         /\ UNCHANGED cFrame

\* one selector of the first loop: find_elements in the top-level
\* document and the loop over its elements
ConsentTop ==
    /\ cPc = "top"
    /\ \E lk \in CookieLookups :
          IF ~lk.raises /\ ScanTop(lk.els, 1)
          THEN /\ cRet' = "true"
               /\ cClicked' = TRUE
               /\ cPc' = "done"
               /\ UNCHANGED cSel
          ELSE /\ IF cSel < NumCookieSelectors
                  THEN cSel' = cSel + 1 /\ cPc' = "top"
                  ELSE cSel' = 1 /\ cPc' = "frames"
               /\ UNCHANGED <<cRet, cClicked>>
    /\ UNCHANGED <<nonConsentVars, cFrame, cFrames, cCtx>>

\* find_elements(By.TAG_NAME, "iframe"): when it raises, or there is no
\* iframe, the method returns False
ConsentFrames ==
    /\ cPc = "frames"
    /\ \E raises \in BOOLEAN, n \in 0..MaxFrames :
          IF raises \/ n = 0
          THEN /\ cRet' = "false"
               /\ cPc' = "done"
               /\ UNCHANGED <<cFrame, cFrames>>
          ELSE /\ cFrames' = n
               /\ cFrame' = 1
               /\ cPc' = "enter"
               /\ UNCHANGED cRet
    /\ UNCHANGED <<nonConsentVars, cSel, cCtx, cClicked>>

\* switch_to.frame(fr): when it raises the frame is passed over
ConsentEnter ==
    /\ cPc = "enter"
    /\ \E sw \in Raises :
          IF sw = "ok"
          THEN /\ cCtx' = "frame"
               /\ cSel' = 1
               /\ cPc' = "frame"
               /\ UNCHANGED <<cFrame, cRet>>
          ELSE /\ NextFrameOrReturn
               /\ UNCHANGED <<cCtx, cSel>>
    /\ UNCHANGED <<nonConsentVars, cFrames, cClicked>>

\* one selector of the loop inside an iframe
ConsentFrameSelector ==
    /\ cPc = "frame"
    /\ \E lk \in CookieLookups :
          LET r == IF lk.raises THEN [ret |-> FALSE, clicked |-> cClicked]
                   ELSE ScanFrame(lk.els, 1, cClicked)
          IN IF r.ret
             THEN /\ cRet' = "true"
                  /\ cClicked' = TRUE
                  /\ cCtx' = "top"
                  /\ cPc' = "done"
                  /\ UNCHANGED cSel
             ELSE /\ cClicked' = r.clicked
                  /\ IF cSel < NumCookieSelectors
                     THEN cSel' = cSel + 1 /\ cPc' = "frame"
                     ELSE cSel' = 1 /\ cPc' = "leave"
                  /\ UNCHANGED <<cRet, cCtx>>
    /\ UNCHANGED <<nonConsentVars, cFrame, cFrames>>

\* switch_to.default_content() after the selectors of a frame, guarded
ConsentLeave ==
    /\ cPc = "leave"
    /\ \E b \in Raises : cCtx' = IF b = "ok" THEN "top" ELSE cCtx
    /\ NextFrameOrReturn
    /\ UNCHANGED <<nonConsentVars, cSel, cFrames, cClicked>>

NextConsent ==
    \/ ExtractStart
    \/ ConsentBegin
    \/ ConsentTop
    \/ ConsentFrames
    \/ ConsentEnter
    \/ ConsentFrameSelector
    \/ ConsentLeave

SpecConsent == InitConsent /\ [][NextConsent]_vars

\* ==================================================================== claims
RunReturned == pc = "idle" /\ outcome # None

\* C1: every exit of run_once, whichever stage failed, goes through stop()
\* before control is back at the caller, and the pending error (or the
\* normal return) is what the caller gets; when start failed on an instance
\* that held no session, that stop touches no driver, raises nothing and the
\* caller gets the start error.
C1_StopOnEveryExit ==
    [][(pc # "idle" /\ pc' = "idle") =>
          /\ stopsInRun' = stopsInRun + 1
          /\ lastCall' = "stop"
          /\ err' = err
          /\ outcome' = IF err = None THEN "returned" ELSE "raised"
          /\ (startFailed /\ entryDriver = NoDriver) =>
                /\ err = "StartupError"
                /\ stopOps' = <<>>
                /\ ~stopRaised'
                /\ torn' = torn
                /\ driver' = NoDriver]_vars

\* a run whose start failed on a fresh instance has returned through stop
C1_Witness ==
    /\ RunReturned
    /\ startFailed
    /\ entryDriver = NoDriver
    /\ stopsInRun = 1
    /\ outcome = "raised"
    /\ err = "StartupError"
    /\ lastCall = "stop"

\* C2: after a stop has returned no session that start created is live, and
\* no session is ever torn down twice.
C2_DestroyedExactlyOnce ==
    /\ \A s \in Sessions : torn[s] <= 1
    /\ (pc = "idle" /\ lastCall = "stop") =>
          \A s \in 1..created : torn[s] = 1

\* C3: the second of two stop() calls in a row raises nothing, performs no
\* close, quit or kill and leaves the scraper and the sessions as they were.
C3_StopIdempotent ==
    [][(stopStreak = 1 /\ stopStreak' = 2) =>
          /\ stopOps' = <<>>
          /\ ~stopRaised'
          /\ driver' = driver
          /\ quit_called' = quit_called
          /\ torn' = torn
          /\ created' = created]_vars

\* a second stop() in a row after the first one tore a session down
C3_Witness ==
    /\ stopStreak = 2
    /\ created = 1
    /\ torn[1] = 1
    /\ stopOps = <<>>
    /\ driver = NoDriver

\* C4: the teardown of a session attempts close, then quit, then (exactly
\* when the service process handle is reachable) kill, each whatever the
\* earlier steps did, and nothing escapes it.
C4_TeardownSteps ==
    (stopStreak = 1 /\ created = 1 /\ torn[1] = 1) =>
        /\ ~stopRaised
        /\ Len(stopOps) = IF quitIn.svc = "proc" THEN 3 ELSE 2
        /\ stopOps[1] = [op |-> "close", raised |-> quitIn.closeR = "raises"]
        /\ stopOps[2] = [op |-> "quit", raised |-> quitIn.quitR = "raises"]
        /\ quitIn.svc = "proc" =>
              stopOps[3] = [op |-> "kill", raised |-> quitIn.killR = "raises"]

\* close and quit both raised and the kill was still attempted
C4_Witness ==
    /\ stopStreak = 1
    /\ torn[1] = 1
    /\ Len(stopOps) = 3
    /\ stopOps[1].raised
    /\ stopOps[2].raised
    /\ stopOps[3].op = "kill"

\* C5: a run in which the prober returned an access point returns to its
\* caller (a result list and the access point), whatever failed afterwards.
C5_OnlyStartOrOpenAbort ==
    (RunReturned /\ domain_used # NoDomain) => outcome = "returned"

\* C6: when the locator found nothing, search makes no interactive
\* submission, starts the direct search, and the run returns a result list.
C6_LocatorMissFallsBack ==
    (RunReturned /\ srch.ran /\ ~srch.located) =>
        /\ ~srch.committed
        /\ Len(srch.direct) = 1
        /\ ~srch.raised
        /\ outcome = "returned"

\* C7: the prober navigates to the candidates in list order, a candidate on
\* which an input is detected is the last one it navigates to, and that
\* candidate is returned with no error.
C7_FirstDetectionWins ==
    /\ \A i \in 1..Len(visited) : visited[i].cand = i
    /\ \A i \in 1..Len(visited) :
          Detected(visited[i].outcome) =>
              /\ i = Len(visited)
              /\ pc = "consent"
              /\ probeRet = [returned |-> TRUE, domain |-> i,
                             error |-> NoExc]
              /\ domain_used = i
    /\ pc = "consent" =>
          /\ visited # <<>>
          /\ Detected(visited[Len(visited)].outcome)

\* the first candidate timed out, the second was detected and returned, the
\* third was not navigated to
C7_Witness ==
    /\ pc = "consent"
    /\ Len(visited) = 2
    /\ visited[1].outcome = "timeout"
    /\ visited[2].outcome = "present"
    /\ probeRet.domain = 2
    /\ probeRet.error = NoExc
    /\ NumCandidates > 2

AllCandidatesFailed ==
    /\ Len(visited) = NumCandidates
    /\ \A i \in 1..Len(visited) : ~Detected(visited[i].outcome)

\* C8: when every candidate failed the prober returns no access point and
\* the error of the last candidate, open_google_resilient raises, and the
\* run ends without consent handling, search or extraction.
C8_AllFailAborts ==
    (AllCandidatesFailed /\ pc # "probe") =>
        /\ probeRet = [returned |-> TRUE, domain |-> NoDomain,
                       error |-> [cand |-> NumCandidates,
                                  kind |-> visited[NumCandidates].outcome]]
        /\ err = "OpenFailure"
        /\ pc \in {"finally", "idle"}
        /\ pc = "idle" => outcome = "raised"
        /\ ~consent
        /\ ~srch.ran
        /\ ~extracted
        /\ domain_used = NoDomain

\* every candidate failed, each in a different way, and the run has raised
C8_Witness ==
    /\ RunReturned
    /\ AllCandidatesFailed
    /\ visited[1].outcome # visited[NumCandidates].outcome
    /\ err = "OpenFailure"
    /\ outcome = "raised"

\* C9 as stated: the returned list is never longer than max_results.
C9_AtMostMaxResults ==
    exDone => Len(results) <= max_results

\* C9 amended: for max_results >= 0 the returned list has at most
\* max_results records, and for a negative max_results it is empty.
C9_AtMostMaxResultsNonNegative ==
    exDone => /\ max_results >= 0 => Len(results) <= max_results
              /\ max_results < 0 => results = <<>>

\* three well-formed blocks were cut down to max_results = 2
C9_Witness ==
    /\ exDone
    /\ max_results = 2
    /\ Len(results) = 2
    /\ Len(page.blocks) = 3
    /\ \A i \in 1..3 : page.blocks[i].link /\ page.blocks[i].h3
    /\ ~page.searchDiv

\* C10: the ranks of the returned records are 1, 2, ..., len(results) in
\* emission order, and the records come from candidate blocks in document
\* order.
C10_RanksDense ==
    exDone =>
        /\ \A i \in 1..Len(results) : results[i].rank = i
        /\ \A i \in 1..Len(results) :
              /\ results[i].block \in 1..Len(page.blocks)
              /\ page.blocks[results[i].block].link
              /\ page.blocks[results[i].block].h3
        /\ \A i, j \in 1..Len(results) :
              i < j => results[i].block < results[j].block

\* a block was skipped between two emitted records
C10_Witness ==
    /\ exDone
    /\ Len(results) = 2
    /\ results[1].block = 1
    /\ results[2].block = 3
    /\ results[2].rank = 2

\* the blocks extract_results looks at, and those of them with a primary
\* link and a heading
CandidateBlocks ==
    {i \in 1..Len(page.blocks) : ~page.searchDiv \/ page.blocks[i].inSearch}
WellFormedBlocks ==
    {i \in CandidateBlocks : page.blocks[i].link /\ page.blocks[i].h3}

\* C11: for max_results >= 0 the returned records are exactly the first
\* min(max_results, w) well-formed candidate blocks, in document order,
\* where w is the number of well-formed candidate blocks; blocks without
\* link or heading take no rank, and a page without candidates gives <<>>.
C11_FirstWellFormed ==
    (exDone /\ max_results >= 0) =>
        LET w == Cardinality(WellFormedBlocks)
            n == IF max_results < w THEN max_results ELSE w
        IN /\ Len(results) = n
           /\ \A i \in 1..Len(results) :
                 /\ results[i].block \in WellFormedBlocks
                 /\ Cardinality({v \in WellFormedBlocks :
                                   v <= results[i].block}) = i

\* twelve well-formed blocks and max_results = 5 gave the first five
C11_Witness ==
    /\ exDone
    /\ page = TwelveBlockPage
    /\ max_results = 5
    /\ Len(results) = 5
    /\ \A i \in 1..5 : results[i].block = i /\ results[i].rank = i

\* C12: _accept_cookies_resilient returns a boolean, and it returns True
\* exactly when a click on a visible and enabled consent element succeeded.
C12_TrueIffClicked ==
    cPc = "done" =>
        /\ cRet \in {"true", "false"}
        /\ (cRet = "true") <=> cClicked

\* C13: with debug capture enabled, a failure to write a diagnostic artifact
\* never changes the control flow: search takes the same path (same
\* fallbacks to direct search, same exit) as the same call with debug off.
C13_DebugNeverChangesFlow ==
    srch.ran => srch = Search(sIn, FALSE)
\* C17: when an input element was located and no attempt to deliver the
\* commit keystroke succeeded, a search that returns has navigated to the
\* direct query URL.
C17_UncommittedFallsBack ==
    (srch.ran /\ srch.located /\ ~srch.committed /\ ~srch.raised) =>
        srch.direct # <<>>
\* the authority of an absolute url without userinfo and port
HostOf(t) ==
    SelectSeq(Urlparse(t).netloc, LAMBDA c : c \notin {"user@", ":8080"})
Unparseable(t) == Has(t, "[") # Has(t, "]")
WellFormedAbsolute(t) ==
    /\ Len(t) >= 3
    /\ t[1] = "https:"
    /\ t[2] = "//"
    /\ ~Unparseable(t)

\* C14: every candidate with a link and a heading yields a record whose
\* domain is the host component of its url when the url is a well-formed
\* absolute URL, and the empty string when the url is empty or unparseable.
C14_DomainIsHost ==
    rPc # "idle" =>
        /\ rPc = "emitted"
        /\ WellFormedAbsolute(rec.url) => rec.domain = HostOf(rec.url)
        /\ (rec.url = <<>> \/ Unparseable(rec.url)) => rec.domain = <<>>

\* the elements of the block under study that match a snippet descriptor
SnippetMatches ==
    {i \in 1..Len(rIn.snips) : rIn.snips[i].cls \in SnippetClasses}
FirstSnippetText ==
    GetTextStrip(rIn.snips[CHOOSE i \in SnippetMatches :
                              \A j \in SnippetMatches : i <= j].text)

\* C20 as stated: the snippet of an emitted record is the text of the first
\* element matching a snippet descriptor, and the empty string when no
\* element matches.
C20_SnippetOrEmpty ==
    rPc = "emitted" =>
        rec.snippet = IF SnippetMatches = {} THEN <<>> ELSE FirstSnippetText

\* C20 amended: the snippet of an emitted record is the stripped text of
\* the first element, in document order, matching any snippet descriptor,
\* and the placeholder U+2014 when no element matches.
C20_SnippetOrPlaceholder ==
    rPc = "emitted" =>
        rec.snippet = IF SnippetMatches = {} THEN <<EmDash>>
                      ELSE FirstSnippetText

C20_Witness ==
    /\ rPc = "emitted"
    /\ Len(rIn.snips) = 2
    /\ rIn.snips[1].cls = "other"
    /\ rIn.snips[1].text = << <<"a">> >>
    /\ rIn.snips[2].cls = "VwiC3b"
    /\ rIn.snips[2].text = << <<" ", "b", " ">>, <<" ">>, <<"a">> >>
    /\ rec.snippet = <<"b", "a">>
\* reading a query string back: the pairs between the "&", each split at
\* its "=", with "+" and the percent escapes decoded
RECURSIVE Unquote(_)
Unquote(s) ==
    IF s = <<>> THEN <<>>
    ELSE IF Head(s) = "+" THEN <<" ">> \o Unquote(Tail(s))
    ELSE IF Head(s) = "%" /\ Len(s) >= 3
    THEN <<(IF SubSeq(s, 2, 3) = <<"2", "6">> THEN "&"
            ELSE IF SubSeq(s, 2, 3) = <<"2", "B">> THEN "+"
            ELSE "=")>> \o Unquote(SubSeq(s, 4, Len(s)))
    ELSE <<Head(s)>> \o Unquote(Tail(s))

RECURSIVE ParseQs(_, _, _, _)
ParseQs(s, key, val, inVal) ==
    IF s = <<>> THEN << <<Unquote(key), Unquote(val)>> >>
    ELSE IF Head(s) = "&"
    THEN << <<Unquote(key), Unquote(val)>> >>
             \o ParseQs(Tail(s), <<>>, <<>>, FALSE)
    ELSE IF Head(s) = "=" /\ ~inVal THEN ParseQs(Tail(s), key, val, TRUE)
    ELSE IF inVal THEN ParseQs(Tail(s), key, Append(val, Head(s)), TRUE)
    ELSE ParseQs(Tail(s), Append(key, Head(s)), val, FALSE)

Params(u) == ParseQs(u.qs, <<>>, <<>>, FALSE)
Keys(ps) == [i \in 1..Len(ps) |-> ps[i][1]]
Param(ps, k) == ps[CHOOSE i \in 1..Len(ps) : ps[i][1] = k][2]

HasDash(s) == \E i \in 1..Len(s) : s[i] = "-"
\* the characters before the first dash, and those after the last dash
LeadingSegment(s) ==
    SubSeq(s, 1, CHOOSE k \in 0..Len(s) :
                    /\ \A i \in 1..k : s[i] # "-"
                    /\ k < Len(s) => s[k + 1] = "-")
TrailingSegment(s) ==
    SubSeq(s, 1 + (CHOOSE k \in 0..Len(s) :
                      /\ \A i \in (k + 1)..Len(s) : s[i] # "-"
                      /\ k > 0 => s[k] = "-"), Len(s))

\* C15: hl is the leading segment of preferred_lang and gl, present only if
\* preferred_lang has a "-", is its trailing segment; the probe url and
\* the direct search url carry the same hl and gl, and the direct url
\* carries q equal to the query.
C15_LocaleParams ==
    (probeUrl # NoUrl /\ directUrl # NoUrl) =>
        LET p == Params(probeUrl)
            d == Params(directUrl)
            gl == IF HasDash(preferred_lang) THEN << <<"g", "l">> >> ELSE <<>>
        IN /\ Keys(p) = << <<"h", "l">> >> \o gl
           /\ Keys(d) = << <<"q">>, <<"h", "l">> >> \o gl
           /\ Param(p, <<"h", "l">>) = LeadingSegment(preferred_lang)
           /\ Param(d, <<"h", "l">>) = LeadingSegment(preferred_lang)
           /\ HasDash(preferred_lang) =>
                 /\ Param(p, <<"g", "l">>) = TrailingSegment(preferred_lang)
                 /\ Param(d, <<"g", "l">>) = TrailingSegment(preferred_lang)
           /\ Param(d, <<"q">>) = query

C15_Witness ==
    /\ preferred_lang = <<"d", "e", "-", "D", "E">>
    /\ query = <<"z", "u", "m", "b", "a">>
    /\ probeUrl.qs = <<"h", "l", "=", "d", "e", "&", "g", "l", "=", "D", "E">>
    /\ directUrl.path = "/search"
    /\ directUrl.qs = <<"q", "=", "z", "u", "m", "b", "a", "&",
                        "h", "l", "=", "d", "e", "&", "g", "l", "=", "D", "E">>
\* C16: every invocation of main ends with exactly one JSON document on
\* standard output and no exception leaving main: {domain_used, results}
\* when run_once returned, {error} when it raised, with a trace only on
\* failure and only when debug is enabled.
C16_OneDocument ==
    mPc \in {"returned", "escaped"} =>
        /\ mPc = "returned"
        /\ Len(stdout) = 1
        /\ outcome = "returned" =>
              /\ stdout[1].hasResults
              /\ stdout[1].error = None
              /\ stdout[1].domain_used = domain_used
              /\ stdout[1].results = results
        /\ outcome = "raised" =>
              /\ ~stdout[1].hasResults
              /\ stdout[1].error = err
        /\ stdout[1].trace => (outcome = "raised" /\ debug)
\* the descriptors in priority order
LocateOrder ==
    [i \in 1..NumSelectors |-> [tier |-> "css", idx |-> i]]
        \o [i \in 1..NumXPaths |-> [tier |-> "xpath", idx |-> i]]
        \o <<[tier |-> "input", idx |-> 1], [tier |-> "textarea", idx |-> 1]>>

\* C18: the locator consults the descriptors in priority order (CSS, then
\* XPath, then the generic scan); every CSS or XPath descriptor it passed
\* over raised or had no visible match, a raising lookup does not end the
\* search, and the element returned is the first visible match of the
\* first descriptor, in that order, that has one.
C18_StrictPriority ==
    lPc = "done" =>
        /\ Len(lLog) <= Len(LocateOrder)
        /\ \A k \in 1..Len(lLog) :
              /\ lLog[k].tier = LocateOrder[k].tier
              /\ lLog[k].idx = LocateOrder[k].idx
              /\ lLog[k].tier \in {"css", "xpath"} => lLog[k].visTypes = {}
        /\ lRet = NotLocated => Len(lLog) >= NumSelectors + NumXPaths
        /\ lRet # NotLocated =>
              /\ lRet.tier = LocateOrder[Len(lLog) + 1].tier
              /\ lRet.idx = LocateOrder[Len(lLog) + 1].idx
              /\ ~lHit.raises
              /\ lRet.el \in 1..Len(lHit.els)
              /\ lHit.els[lRet.el].state = "visible"
              /\ lRet.tier \in {"css", "xpath"} =>
                    \A j \in 1..(lRet.el - 1) : lHit.els[j].state # "visible"

C18_Witness ==
    /\ lPc = "done"
    /\ lRet = [tier |-> "xpath", idx |-> 2, el |-> 2]
    /\ lHit.els[1].state = "check_raises"
    /\ Len(lLog) = NumSelectors + 1
    /\ lLog[1].raised
    /\ ~lLog[2].raised

\* C19 as stated: the locator returns (None, None) only if no lookup it
\* made returned a visible element.
C19_NoneOnlyIfNothingVisible ==
    (lPc = "done" /\ lRet = NotLocated) =>
        \A k \in 1..Len(lLog) : lLog[k].visTypes = {}

\* C19 amended: the locator returns (None, None) only if every lookup it
\* made returned no visible element, visible inputs of a type other than
\* text, search or unspecified apart, and it leaves out the textarea scan
\* only when the lookup of the input elements raised.
C19_NoneOnlyIfNothingAccepted ==
    (lPc = "done" /\ lRet = NotLocated) =>
        /\ \A k \in 1..Len(lLog) :
              /\ lLog[k].visTypes \cap {"text", "search", ""} = {}
              /\ lLog[k].tier # "input" => lLog[k].visTypes = {}
        /\ \/ Len(lLog) = Len(LocateOrder)
           \/ /\ Len(lLog) = Len(LocateOrder) - 1
              /\ lLog[Len(lLog)].raised

C19_Witness ==
    /\ lPc = "done"
    /\ lRet = NotLocated
    /\ Len(lLog) = Len(LocateOrder)
    /\ lLog[Len(lLog) - 1].visTypes = {"submit"}
    /\ ~lLog[Len(lLog)].raised
\* C21: the consent resolver turns to the iframes only if no consent
\* element was clicked in the top-level document, and whenever it has
\* returned the browsing context of the driver is the top-level document.
C21_ReturnsInTopContext ==
    /\ cPc \in {"frames", "enter", "frame", "leave"} => cRet = None
    /\ cPc = "frames" => ~cClicked
    /\ cPc = "done" => cCtx = "top"
\* the steps from one stage of run_once to the next
StageSteps ==
    {<<"idle", "start">>, <<"start", "probe">>, <<"start", "finally">>,
     <<"probe", "consent">>, <<"probe", "finally">>, <<"consent", "search">>,
     <<"search", "extract">>, <<"search", "finally">>,
     <<"extract", "finally">>, <<"finally", "idle">>}

\* every step of a run follows the order start, probe, consent, search,
\* extraction, stop, and consent, search and extraction are entered and
\* carried out only with the access point the prober returned
StagesInOrder ==
    /\ pc' # pc => <<pc, pc'>> \in StageSteps
    /\ pc' \in {"consent", "search", "extract"} =>
          probeRet'.returned /\ probeRet'.domain # NoDomain
    /\ (consent' /\ ~consent) => pc = "consent"
    /\ (srch'.ran /\ ~srch.ran) => pc = "search"
    /\ (extracted' /\ ~extracted) => pc = "extract"
    /\ pc # "idle" => (stopsInRun' # stopsInRun <=> pc = "finally")

\* the submissions of the query a search made: the commit keystroke that
\* was delivered and the navigations to the direct query url
Submissions(s) == (IF s.committed THEN 1 ELSE 0) + Len(s.direct)

\* C22 as stated: the stages of a run execute strictly in order, each at
\* most once, the submission of the query (interactive or by direct url)
\* among them.
C22_EachStageOnce ==
    [][StagesInOrder /\ (srch'.ran => Submissions(srch') <= 1)]_vars

\* C22 amended: the calls of run_once execute strictly in the order start,
\* probe, consent, search, extraction, stop, each at most once per run;
\* consent, search and extraction only with an access point, nothing after
\* stop.  (Inside search a direct url submission may follow an
\* interactive one.)
C22_CallsInOrder == [][StagesInOrder]_vars

C22_Witness ==
    /\ pc = "idle"
    /\ outcome = "returned"
    /\ consent
    /\ extracted
    /\ stopsInRun = 1
    /\ srch.committed
    /\ Len(srch.direct) = 1
\* C23: when GetResults.run has ended, by returning or by raising, the
\* browser it started has been quit.
C23_RunQuitsItsBrowser ==
    \A r \in Requests :
        (rpc[r] \in {"done", "raised"} /\ own[r] # 0) => own[r] \notin sAlive

C25_DirectAtMostOnce ==
    srch.ran => Len(srch.direct) <= 1
====
